---- MODULE Spec2Model ----
(***************************************************************************)
(* Model of backend/funcs.py: the feature encoder (preprocess_data), the   *)
(* counterfactual profile generator (create_ideal_profile), the training   *)
(* schema (train_final_model) and the pipeline generate_dashboard_data.    *)
(*                                                                         *)
(* A DataFrame is [columns : ordered column names, rows : one function     *)
(* column name -> cell per row].  DataFrames live in a heap (a sequence of *)
(* tables); a Python variable holds a reference (an index of the heap), so *)
(* that an in-place column assignment through an alias is visible to the   *)
(* caller.  Grades (FinalGrade, predictions, margins) are fixed point, in  *)
(* thousandths of a grade point; Complexity_Score is in units of           *)
(* 1/(20*1000).                                                            *)
(***************************************************************************)
EXTENDS Integers, Sequences, FiniteSets, TLC

VARIABLES input, other, orig, feature_cols, model, X, dash

vars == <<input, other, orig, feature_cols, model, X, dash>>

(***************************************************************************)
(* Cells: a string, a number, or NaN (pandas' missing value).              *)
(***************************************************************************)
Str(s) == [k |-> "str", s |-> s, n |-> 0]
Num(n) == [k |-> "num", s |-> "", n |-> n]
NaN == [k |-> "nan", s |-> "", n |-> 0]

Range(s) == {s[i] : i \in DOMAIN s}

\* The one element of the singleton S, built in full.  {e : x \in {d}} binds x
\* to the value of d, so d is evaluated once however often e uses x.
The(S) == CHOOSE x \in S : x = x

\* Python's None for the optional argument training_columns; a list L is <<L>>.
None == <<>>
Some(L) == <<L>>

(***************************************************************************)
(* The fixed mappings, funcs.py lines 6-10.                                *)
(***************************************************************************)
BINARY_MAPPING == ("yes" :> 1) @@ ("no" :> 0)
SEX_MAPPING == ("F" :> 1) @@ ("M" :> 0)
ADDRESS_MAPPING == ("U" :> 1) @@ ("R" :> 0)
FAMSIZE_MAPPING == ("LE3" :> 1) @@ ("GT3" :> 0)
PSTATUS_MAPPING == ("T" :> 1) @@ ("A" :> 0)

drop_cols == <<"StudentID", "FirstName", "FamilyName">>
cols_yes_no == <<"schoolsup", "famsup", "paid", "activities", "nursery",
                 "higher", "internet", "romantic">>
nominal_cols == <<"Mjob", "Fjob", "reason", "guardian">>

(***************************************************************************)
(* pandas primitives on table values.                                      *)
(***************************************************************************)
\* df[col] : the column as a series (one cell per row).
getitem(t0, col) == The({[i \in DOMAIN t.rows |-> t.rows[i][col]] : t \in {t0}})

\* df[col] = series : replaces the column, or appends it as the last column.
setitem(t0, col, series0) ==
  The({[columns |-> IF col \in Range(t.columns) THEN t.columns ELSE Append(t.columns, col),
        rows |-> [i \in DOMAIN t.rows |->
                    [c \in Range(t.columns) \cup {col} |->
                       IF c = col THEN series[i] ELSE t.rows[i][c]]]]
       : t \in {t0}, series \in {series0}})

\* a scalar broadcast to every row of t.
broadcast(t0, cell) == The({[i \in DOMAIN t.rows |-> cell] : t \in {t0}})

\* df.drop(labels, axis=1) : the table without the columns in labels.
drop(t0, labels) ==
  The({[columns |-> SelectSeq(t.columns, LAMBDA c : c \notin labels),
        rows |-> [i \in DOMAIN t.rows |->
                    [c \in Range(t.columns) \ labels |-> t.rows[i][c]]]]
       : t \in {t0}})

\* df[list] : the columns of list, in the order of list.
select(t0, list) ==
  The({[columns |-> list,
        rows |-> [i \in DOMAIN t.rows |-> [c \in Range(list) |-> t.rows[i][c]]]]
       : t \in {t0}})

\* Series.map(dict) : a value that is not a key of the dict becomes NaN.
map(series0, mapping) ==
  The({[i \in DOMAIN series |->
          IF series[i].k = "str" /\ series[i].s \in DOMAIN mapping
            THEN Num(mapping[series[i].s])
            ELSE NaN]
       : series \in {series0}})

\* element-wise arithmetic; NaN propagates.
IsNum(a) == a.k = "num"

s_add(a0, b0) ==
  The({[i \in DOMAIN a |-> IF IsNum(a[i]) /\ IsNum(b[i]) THEN Num(a[i].n + b[i].n) ELSE NaN]
       : a \in {a0}, b \in {b0}})

s_sub(a0, b0) ==
  The({[i \in DOMAIN a |-> IF IsNum(a[i]) /\ IsNum(b[i]) THEN Num(a[i].n - b[i].n) ELSE NaN]
       : a \in {a0}, b \in {b0}})

s_mul(a0, b0) ==
  The({[i \in DOMAIN a |-> IF IsNum(a[i]) /\ IsNum(b[i]) THEN Num(a[i].n * b[i].n) ELSE NaN]
       : a \in {a0}, b \in {b0}})

s_abs(a0) ==
  The({[i \in DOMAIN a |->
          IF IsNum(a[i]) THEN Num(IF a[i].n < 0 THEN -a[i].n ELSE a[i].n) ELSE NaN]
       : a \in {a0}})

(***************************************************************************)
(* The heap: df.copy() and every pandas call that returns a DataFrame      *)
(* allocate a new table; df[col] = ... writes the table a reference names. *)
(* A heap with a reference into it is a record [heap, ref].                *)
(***************************************************************************)
alloc(h0, t0) == The({[heap |-> Append(h, t), ref |-> Len(h) + 1] : h \in {h0}, t \in {t0}})
store(h, r, t) == [h EXCEPT ![r] = t]

\* a variant that returns the same object instead of a copy
copy_alias(h, r) == [heap |-> h, ref |-> r]

\* df.copy()
copy(h, r) == The({alloc(g, g[r]) : g \in {h}})

\* the table a names
deref(a) == a.heap[a.ref]

\* the table a names, replaced in place by t
assign(a0, t0) == The({[heap |-> store(a.heap, a.ref, t), ref |-> a.ref] : a \in {a0}, t \in {t0}})

(***************************************************************************)
(* pd.get_dummies(df, columns=nominal_cols, drop_first=True, dtype=int),   *)
(* funcs.py line 39.  The levels of a column are the distinct values that  *)
(* occur in THIS table, sorted; drop_first removes the first of them.  The *)
(* encoded columns are removed and the indicator columns appended, column  *)
(* by column.  LevelOrder is the sort order (lexicographic) of the level   *)
(* strings.                                                                *)
(***************************************************************************)
LevelOrder == <<"at_home", "course", "father", "health", "home", "mother",
                "other", "reputation", "services", "teacher">>

levels(t, col) ==
  SelectSeq(LevelOrder, LAMBDA l : \E i \in DOMAIN t.rows : t.rows[i][col] = Str(l))

drop_first(lv) == IF lv = <<>> THEN <<>> ELSE Tail(lv)

dummies_of(t, col) ==
  The({[j \in 1..Len(kept) |->
          [name |-> col \o "_" \o kept[j], col |-> col, level |-> kept[j]]]
       : kept \in {drop_first(levels(t, col))}})

RECURSIVE dummies(_, _)
dummies(t, cols) ==
  IF cols = <<>> THEN <<>>
  ELSE dummies_of(t, Head(cols)) \o dummies(t, Tail(cols))

get_dummies(t0, cols) ==
  The({[columns |-> base.columns \o [j \in DOMAIN ds |-> ds[j].name],
        rows |-> [i \in DOMAIN t.rows |->
                    [c \in Range(base.columns) \cup {ds[j].name : j \in DOMAIN ds} |->
                       IF c \in Range(base.columns) THEN base.rows[i][c]
                       ELSE LET d == CHOOSE d \in Range(ds) : d.name = c
                            IN Num(IF t.rows[i][d.col] = Str(d.level) THEN 1 ELSE 0)]]]
       : t \in {t0}, base \in {drop(t0, Range(cols))}, ds \in {dummies(t0, cols)}})

(***************************************************************************)
(* preprocess_data, funcs.py lines 16-58.                                  *)
(***************************************************************************)
\* lines 28-30: for col in cols: df_proc[col] = df_proc[col].map(mapping)
RECURSIVE map_columns(_, _, _)
map_columns(t0, cols, mapping) ==
  IF cols = <<>> THEN t0
  ELSE The({map_columns(setitem(t, Head(cols), map(getitem(t, Head(cols)), mapping)),
                        Tail(cols), mapping)
            : t \in {t0}})

\* lines 27-35
binary_mappings(t) ==
  map_columns(
    map_columns(
      map_columns(
        map_columns(
          map_columns(t, cols_yes_no, BINARY_MAPPING),
          <<"sex">>, SEX_MAPPING),
        <<"address">>, ADDRESS_MAPPING),
      <<"famsize">>, FAMSIZE_MAPPING),
    <<"Pstatus">>, PSTATUS_MAPPING)

\* the four derived series, lines 42, 43, 46, 47
parent_edu_total(t) == s_add(getitem(t, "Medu"), getitem(t, "Fedu"))
parent_edu_diff(t) == s_abs(s_sub(getitem(t, "Medu"), getitem(t, "Fedu")))
total_alcohol(t) == s_add(getitem(t, "Dalc"), s_mul(getitem(t, "Walc"), broadcast(t, Num(2))))
party_life(t) ==
  s_mul(s_mul(getitem(t, "Total_Alcohol"), getitem(t, "Total_Alcohol")), getitem(t, "goout"))

\* a variant that keeps a derived column the table already has
feature_engineering_stale(t) ==
  LET keep(u, col, series) == IF col \in Range(u.columns) THEN u ELSE setitem(u, col, series)
  IN The({keep(t3, "Party_Life", party_life(t3))
          : t3 \in {keep(t2, "Total_Alcohol", total_alcohol(t2))
                    : t2 \in {keep(t1, "Parent_Edu_Diff", parent_edu_diff(t1))
                              : t1 \in {keep(t, "Parent_Edu_Total", parent_edu_total(t))}}}})

\* lines 41-47
feature_engineering(t) ==
  The({setitem(t3, "Party_Life", party_life(t3))
       : t3 \in {setitem(t2, "Total_Alcohol", total_alcohol(t2))
                 : t2 \in {setitem(t1, "Parent_Edu_Diff", parent_edu_diff(t1))
                           : t1 \in {setitem(t, "Parent_Edu_Total", parent_edu_total(t))}}}})

\* lines 53-55: for col in training_columns: if col not in df_proc.columns: df_proc[col] = 0
RECURSIVE fill_missing(_, _)
fill_missing(t0, cols) ==
  IF cols = <<>> THEN t0
  ELSE The({fill_missing(IF Head(cols) \in Range(t.columns) THEN t
                         ELSE setitem(t, Head(cols), broadcast(t, Num(0))),
                         Tail(cols))
            : t \in {t0}})

\* a variant of line 56 that puts the schema's columns first and keeps the others
reindex_keep_extra(t, training_columns) ==
  select(t, training_columns \o SelectSeq(t.columns, LAMBDA c : c \notin Range(training_columns)))

\* line 56: df_proc = df_proc[training_columns]
reindex(t, training_columns) == select(t, training_columns)

\* line 25: df_proc = df_proc.drop([c for c in drop_cols if c in df_proc.columns], axis=1)
drop_identifiers(a0) ==
  The({alloc(a.heap, drop(deref(a), {c \in Range(drop_cols) : c \in Range(deref(a).columns)}))
       : a \in {a0}})

\* lines 28-35, on the object df_proc names
apply_mappings(a0) == The({assign(a, binary_mappings(deref(a))) : a \in {a0}})

\* line 39: df_proc = pd.get_dummies(df_proc, ...)
one_hot(a0) == The({alloc(a.heap, get_dummies(deref(a), nominal_cols)) : a \in {a0}})

\* lines 42-47, on the object df_proc names
add_derived(a0) == The({assign(a, feature_engineering(deref(a))) : a \in {a0}})

\* lines 52-56
reconcile(a0, training_columns) ==
  IF training_columns = None THEN a0
  ELSE The({alloc(b.heap, reindex(deref(b), training_columns[1]))
            : b \in {assign(a, fill_missing(deref(a), training_columns[1])) : a \in {a0}}})

preprocess_data(h, df, training_columns) ==
  reconcile(add_derived(one_hot(apply_mappings(drop_identifiers(copy(h, df))))),
            training_columns)

(***************************************************************************)
(* train_final_model, funcs.py lines 60-78: the feature list it returns,   *)
(* list(X.columns) with X = preprocess_data(df_raw).drop('FinalGrade').    *)
(* The fitted regressor itself is opaque.                                  *)
(***************************************************************************)
train_final_model(df_raw_table) ==
  drop(deref(preprocess_data(<<df_raw_table>>, 1, None)), {"FinalGrade"}).columns

(***************************************************************************)
(* create_ideal_profile, funcs.py lines 80-95.                             *)
(***************************************************************************)
\* df_ideal[col] = value, on the object a names
override(a0, col, value) ==
  The({assign(a, setitem(deref(a), col, broadcast(deref(a), Num(value)))) : a \in {a0}})

\* a variant that forgets one override
create_ideal_profile_partial(h, df_raw) ==
  override(override(override(override(copy(h, df_raw),
    "studytime", 4), "Dalc", 1), "Walc", 1), "absences", 0)

create_ideal_profile(h, df_raw) ==
  override(                    \* line 91
    override(                  \* line 90
      override(                \* line 89
        override(              \* line 88
          override(            \* line 87
            copy(h, df_raw),   \* line 84
            "studytime", 4),
          "Dalc", 1),
        "Walc", 1),
      "absences", 0),
    "goout", 2)

(***************************************************************************)
(* Fixed point.  np.round(x, 2) (line 119) keeps Decimals digits; values   *)
(* are held with one more digit, so a grade g is the integer g * Unit.     *)
(***************************************************************************)
Decimals == 2
MaxGrade == 20

RECURSIVE Pow10(_)
Pow10(e) == IF e = 0 THEN 1 ELSE 10 * Pow10(e - 1)

Unit == Pow10(Decimals + 1)

\* a variant that truncates instead of rounding
np_round_floor(series) ==
  [i \in DOMAIN series |-> Num(10 * (series[i].n \div 10))]

\* np.round(series, 2): to the nearest multiple of 10^-2, halves to even
np_round(series) ==
  [i \in DOMAIN series |->
     LET q == series[i].n \div 10
         r == series[i].n % 10
     IN Num(10 * (IF r < 5 THEN q
                  ELSE IF r > 5 THEN q + 1
                  ELSE IF q % 2 = 0 THEN q ELSE q + 1))]

\* a variant without the lower bound
clip_none(series, lower) == series

\* Series.clip(lower=...), line 125; NaN stays NaN
clip(series, lower) ==
  [i \in DOMAIN series |->
     IF IsNum(series[i]) /\ series[i].n < lower THEN Num(lower) ELSE series[i]]

\* a variant that normalises by half the grade scale
complexity_score_half(margin) ==
  [i \in DOMAIN margin |->
     IF IsNum(margin[i]) THEN Num(MaxGrade * Unit - 2 * margin[i].n) ELSE NaN]

\* 1 - margin / 20, line 132, in units of 1 / (MaxGrade * Unit)
complexity_score(margin) ==
  [i \in DOMAIN margin |->
     IF IsNum(margin[i]) THEN Num(MaxGrade * Unit - margin[i].n) ELSE NaN]

(***************************************************************************)
(* model.predict, line 115.  The persisted regressor is opaque: it is any  *)
(* function of an encoded row.  The model has a linear stand-in, chosen    *)
(* in Init, that reads a few feature columns of the row.  A NaN cell is    *)
(* either rejected by the regressor (has_nan, below) or read as missing.   *)
(***************************************************************************)
val(x, c) == IF c \in DOMAIN x /\ IsNum(x[c]) THEN x[c].n ELSE 0

predict_row(m, x) ==
  m.bias + m.wMedu * val(x, "Medu") + m.wHealth * val(x, "Mjob_health")
         + m.wStudy * val(x, "studytime") + m.wSup * val(x, "schoolsup")

predict(m, Xt0) == The({[i \in DOMAIN Xt.rows |-> Num(predict_row(m, Xt.rows[i]))] : Xt \in {Xt0}})

has_nan(t) == \E i \in DOMAIN t.rows : \E c \in DOMAIN t.rows[i] : t.rows[i][c] = NaN

NoTable == [columns |-> <<>>, rows |-> <<>>]

NoDash == [status |-> "none", df_raw |-> NoTable, df_ideal_raw |-> NoTable,
           X_ideal |-> NoTable, potential_preds |-> <<>>, results |-> NoTable]

(***************************************************************************)
(* generate_dashboard_data, funcs.py lines 98-134.  csv is the content of  *)
(* the file at csv_path; nan_ok says whether the installed regressor       *)
(* accepts missing values (otherwise predict raises and nothing is         *)
(* returned).                                                              *)
(***************************************************************************)
\* lines 118-132: the result table, from the raw table and the predictions
dashboard_results(df_raw_table, potential_preds) ==
  The({setitem(r3, "Complexity_Score",
               complexity_score(getitem(r3, "Improvability_Margin")))            \* line 132
       : r3 \in {setitem(r2, "Improvability_Margin",
                         clip(getitem(r2, "Improvability_Margin"), 0))           \* line 125
                 : r2 \in {setitem(r1, "Improvability_Margin",
                                   s_sub(getitem(r1, "Potential_Grade"),
                                         getitem(r1, "FinalGrade")))             \* line 122
                           : r1 \in {setitem(select(df_raw_table,
                                                    <<"StudentID", "FirstName",
                                                      "FamilyName", "FinalGrade">>),  \* line 118
                                             "Potential_Grade",
                                             np_round(potential_preds))}}}})     \* line 119

generate_dashboard_data(csv, m, fcols, nan_ok) ==
  The({The({IF has_nan(deref(x)) /\ ~nan_ok
              THEN [NoDash EXCEPT !.status = "error", !.df_raw = x.heap[1],
                                  !.df_ideal_raw = x.heap[c.ref], !.X_ideal = deref(x)]
              ELSE The({[status |-> "ok", df_raw |-> x.heap[1],
                         df_ideal_raw |-> x.heap[c.ref], X_ideal |-> deref(x),
                         potential_preds |-> potential_preds,
                         results |-> dashboard_results(x.heap[1], potential_preds)]
                        : potential_preds \in {predict(m, deref(x))}})   \* line 115
            : x \in {preprocess_data(c.heap, c.ref, Some(fcols))}})      \* line 114
       : c \in {create_ideal_profile(<<csv>>, 1)}})                      \* lines 107, 113

(***************************************************************************)
(* Inputs.  A raw table has the columns the transforms read, the           *)
(* identifier and name columns, FinalGrade and a column (age) no transform *)
(* names; a table may also arrive with columns already called              *)
(* Total_Alcohol and Party_Life.                                           *)
(***************************************************************************)
MaxRows == 2

RawColumns == <<"StudentID", "FirstName", "FamilyName", "sex", "age", "address",
                "famsize", "Pstatus", "Medu", "Fedu", "Mjob", "Fjob", "reason",
                "guardian", "studytime", "schoolsup", "famsup", "paid",
                "activities", "nursery", "higher", "internet", "romantic",
                "goout", "Dalc", "Walc", "absences", "FinalGrade">>

StaleColumns == <<"Total_Alcohol", "Party_Life">>

Student(id, name, sex, medu, fedu, mjob, guardian, schoolsup, studytime, goout, dalc, walc, absences, grade) ==
  [StudentID |-> Num(id), FirstName |-> Str(name), FamilyName |-> Str("Doe"),
   sex |-> Str(sex), age |-> Num(16), address |-> Str("U"), famsize |-> Str("GT3"),
   Pstatus |-> Str("T"), Medu |-> Num(medu), Fedu |-> Num(fedu), Mjob |-> Str(mjob),
   Fjob |-> Str("other"), reason |-> Str("course"), guardian |-> Str(guardian),
   studytime |-> Num(studytime), schoolsup |-> Str(schoolsup), famsup |-> Str("yes"),
   paid |-> Str("no"), activities |-> Str("yes"), nursery |-> Str("yes"),
   higher |-> Str("yes"), internet |-> Str("no"), romantic |-> Str("no"),
   goout |-> Num(goout), Dalc |-> Num(dalc), Walc |-> Num(walc),
   absences |-> Num(absences), FinalGrade |-> Num(grade),
   Total_Alcohol |-> Num(99), Party_Life |-> Num(77)]

Ana  == Student(1, "Ana",  "F", 2, 2, "at_home",  "mother", "yes",   1, 5, 3, 4, 10, 10 * Unit)
Ben  == Student(2, "Ben",  "M", 4, 1, "health",   "father", "no",    2, 3, 1, 2, 0,  18 * Unit)
Cleo == Student(3, "Cleo", "F", 1, 3, "teacher",  "mother", "no",    3, 2, 2, 1, 4,  -7 * Unit)
Dan  == Student(4, "Dan",  "M", 3, 3, "services", "other",  "yes",   4, 4, 5, 5, 25, 12 * Unit + 500)
Eve  == Student(5, "Eve",  "X", 2, 4, "health",   "mother", "maybe", 2, 1, 1, 1, 2,  15 * Unit)

Students == {Ana, Ben, Cleo, Eve}

Table(batch, stale) ==
  LET cols == IF stale THEN RawColumns \o StaleColumns ELSE RawColumns
  IN [columns |-> cols,
      rows |-> [i \in DOMAIN batch |-> [c \in Range(cols) |-> batch[i][c]]]]

Batches == UNION {[1..n -> Students] : n \in 1..MaxRows}

\* the record a second batch holds besides those of the first: Ana's Mjob,
\* at_home, is the first level in sort order
Extra == Ana

\* schemas: one produced by training on a table in which no Mjob is teacher,
\* and one arbitrary list of column names
TrainingTable == Table(<<Ana, Ben, Dan>>, FALSE)

Schemas == {train_final_model(TrainingTable),
            <<"Total_Alcohol", "Mjob_health", "Never_Seen", "sex", "StudentID", "Medu">>}

Models == {[bias |-> 14 * Unit, wMedu |-> 0, wHealth |-> Unit, wStudy |-> 0, wSup |-> 0],
           [bias |-> 5432, wMedu |-> 1237, wHealth |-> 2500, wStudy |-> 1000, wSup |-> 9]}

BatchNames == {"input", "other"}

Init ==
  /\ \E b \in Batches, stale \in BOOLEAN :
       /\ input = Table(b, stale)
       /\ other = Table(b \o <<Extra>>, stale)
  /\ feature_cols \in Schemas
  /\ model \in Models
  /\ orig = [b \in BatchNames |-> IF b = "input" THEN input ELSE other]
  /\ X = [b \in BatchNames |-> NoTable]
  /\ dash = NoDash

\* the caller's tables, as a heap: input at 1, other at 2
CallerHeap == <<input, other>>
RefOf(b) == IF b = "input" THEN 1 ELSE 2

\* a caller passes one of its tables to preprocess_data with the schema
CallPreprocessData(b) ==
  /\ \E r \in {preprocess_data(CallerHeap, RefOf(b), Some(feature_cols))} :
       /\ X' = [X EXCEPT ![b] = deref(r)]
       /\ input' = r.heap[1]
       /\ other' = r.heap[2]
  /\ UNCHANGED <<orig, feature_cols, model, dash>>

\* a request runs the pipeline on the file holding the input batch (orig is
\* what the files hold: the tables as they were handed to the process).  The
\* installed regressor does not change, so one run is recorded.
CallGenerateDashboardData(nan_ok) ==
  /\ dash = NoDash
  /\ dash' = generate_dashboard_data(orig["input"], model, feature_cols, nan_ok)
  /\ UNCHANGED <<input, other, orig, feature_cols, model, X>>

Next ==
  \/ \E b \in BatchNames : CallPreprocessData(b)
  \/ \E nan_ok \in BOOLEAN : CallGenerateDashboardData(nan_ok)

Spec == Init /\ [][Next]_vars

(***************************************************************************)
(* Properties.                                                             *)
(***************************************************************************)
Called(b) == X[b] # NoTable
DashCalled == dash.status # "none"
DashOk == dash.status = "ok"

\* the columns the encoding of batch b produces before reconciliation
Produced(b) ==
  Range(deref(preprocess_data(<<orig[b]>>, 1, None)).columns)

InSchema(c) == c \in Range(feature_cols)

Max(a, b) == IF a >= b THEN a ELSE b
Abs(a) == IF a < 0 THEN -a ELSE a

\* C1: with a schema S, preprocess_data returns exactly the columns of S in
\* S's order; a column of S the encoding did not produce holds 0 in every
\* row, and no encoded column outside S remains.
ReconciledColumnsAreSchema ==
  \A b \in BatchNames :
    Called(b) =>
      /\ X[b].columns = feature_cols
      /\ Len(X[b].rows) = Len(orig[b].rows)
      /\ \A i \in DOMAIN X[b].rows :
           /\ DOMAIN X[b].rows[i] = Range(feature_cols)
           /\ \A c \in Range(feature_cols) \ Produced(b) : X[b].rows[i][c] = Num(0)

\* C1 witness: a call whose schema names a column the encoding did not
\* produce, and whose encoding produced an indicator column outside the schema.
ReconciledColumnsAreSchemaWitness ==
  \E b \in BatchNames :
    /\ Called(b)
    /\ Range(feature_cols) \ Produced(b) # {}
    /\ "Mjob_teacher" \in Produced(b) \ Range(feature_cols)

\* C2: the idealized copy has studytime=4, Dalc=1, Walc=1, absences=0 and
\* goout=2 in every row, and every other field as in the input record.
Overridden == {"studytime", "Dalc", "Walc", "absences", "goout"}

IdealProfileOverridesOnly ==
  DashCalled =>
    /\ dash.df_ideal_raw.columns = orig["input"].columns
    /\ Len(dash.df_ideal_raw.rows) = Len(orig["input"].rows)
    /\ \A i \in DOMAIN dash.df_ideal_raw.rows :
         LET r == dash.df_ideal_raw.rows[i]
         IN /\ r["studytime"] = Num(4)
            /\ r["Dalc"] = Num(1)
            /\ r["Walc"] = Num(1)
            /\ r["absences"] = Num(0)
            /\ r["goout"] = Num(2)
            /\ \A c \in Range(orig["input"].columns) \ Overridden :
                 r[c] = orig["input"].rows[i][c]

\* C2 witness: a record none of whose five habit fields had the ideal value.
IdealProfileOverridesOnlyWitness ==
  /\ DashCalled
  /\ \E i \in DOMAIN orig["input"].rows :
       LET r == orig["input"].rows[i]
       IN /\ r["studytime"] # Num(4) /\ r["Dalc"] # Num(1) /\ r["Walc"] # Num(1)
          /\ r["absences"] # Num(0) /\ r["goout"] # Num(2)

\* C3: every output row's Improvability_Margin is max(0, Potential_Grade -
\* FinalGrade), hence never negative.
MarginIsClippedGap ==
  DashOk =>
    \A i \in DOMAIN dash.results.rows :
      LET r == dash.results.rows[i]
      IN /\ r["Improvability_Margin"] =
              Num(Max(0, r["Potential_Grade"].n - orig["input"].rows[i]["FinalGrade"].n))
         /\ r["Improvability_Margin"].n >= 0

\* C3 witness: a row whose potential grade is below its actual grade.
MarginIsClippedGapWitness ==
  /\ DashOk
  /\ \E i \in DOMAIN dash.results.rows :
       dash.results.rows[i]["Potential_Grade"].n < orig["input"].rows[i]["FinalGrade"].n

\* C4: Complexity_Score = 1 - Improvability_Margin / 20 in every row; a row
\* whose potential does not exceed its actual grade scores exactly 1.0, and
\* actual 10 with potential 14 gives margin 4 and score 0.8.
ComplexityIsOneMinusMarginOver20 ==
  DashOk =>
    \A i \in DOMAIN dash.results.rows :
      LET r == dash.results.rows[i]
          score == r["Complexity_Score"].n        \* in units of 1 / (20 * Unit)
          margin == r["Improvability_Margin"].n   \* in units of 1 / Unit
      IN /\ score = 20 * Unit - margin
         /\ r["Potential_Grade"].n <= r["FinalGrade"].n => score = 20 * Unit
         /\ (r["FinalGrade"].n = 10 * Unit /\ r["Potential_Grade"].n = 14 * Unit)
              => (margin = 4 * Unit /\ 10 * score = 8 * 20 * Unit)

\* C4 witness: the two rows of the examples, actual 18 with potential 15 and
\* actual 10 with potential 14, in one result.
ComplexityIsOneMinusMarginOver20Witness ==
  /\ DashOk
  /\ \E i \in DOMAIN dash.results.rows :
       /\ dash.results.rows[i]["FinalGrade"].n = 18 * Unit
       /\ dash.results.rows[i]["Potential_Grade"].n = 15 * Unit
  /\ \E i \in DOMAIN dash.results.rows :
       /\ dash.results.rows[i]["FinalGrade"].n = 10 * Unit
       /\ dash.results.rows[i]["Potential_Grade"].n = 14 * Unit

\* C5: a value outside a binary-mapped field's mapping domain makes encoding
\* fail: no encoded table and no result table come back for that batch.
MappedFields == [f \in Range(cols_yes_no) |-> BINARY_MAPPING]
                @@ ("sex" :> SEX_MAPPING) @@ ("address" :> ADDRESS_MAPPING)
                @@ ("famsize" :> FAMSIZE_MAPPING) @@ ("Pstatus" :> PSTATUS_MAPPING)

HasInvalidCategory(t) ==
  \E i \in DOMAIN t.rows : \E f \in DOMAIN MappedFields :
    ~(t.rows[i][f].k = "str" /\ t.rows[i][f].s \in DOMAIN MappedFields[f])

InvalidCategoryFails ==
  /\ \A b \in BatchNames : HasInvalidCategory(orig[b]) => ~Called(b)
  /\ HasInvalidCategory(orig["input"]) => ~DashOk

\* C6 as stated: one output row per input record, in order, with the input
\* record's StudentID, FirstName, FamilyName and FinalGrade, and with
\* Potential_Grade equal to the model's prediction for the idealized encoding
\* of that record.
PassThrough == {"StudentID", "FirstName", "FamilyName", "FinalGrade"}

RowsCarryOriginalFields ==
  /\ Len(dash.results.rows) = Len(orig["input"].rows)
  /\ Len(dash.X_ideal.rows) = Len(orig["input"].rows)
  /\ \A i \in DOMAIN dash.results.rows :
       /\ \A c \in PassThrough : dash.results.rows[i][c] = orig["input"].rows[i][c]
       /\ dash.df_ideal_raw.rows[i]["StudentID"] = orig["input"].rows[i]["StudentID"]
       /\ InSchema("Medu") => dash.X_ideal.rows[i]["Medu"] = orig["input"].rows[i]["Medu"]

PotentialIsExactPrediction ==
  DashOk =>
    /\ RowsCarryOriginalFields
    /\ \A i \in DOMAIN dash.results.rows :
         dash.results.rows[i]["Potential_Grade"].n = predict_row(model, dash.X_ideal.rows[i])

\* C6 amended: as above, with Potential_Grade the prediction rounded to two
\* decimals (a multiple of 0.01 at most 0.005 away from the prediction).
PotentialIsRoundedPrediction ==
  DashOk =>
    /\ RowsCarryOriginalFields
    /\ \A i \in DOMAIN dash.results.rows :
         LET p == dash.results.rows[i]["Potential_Grade"].n
         IN /\ p % 10 = 0
            /\ 2 * Abs(p - predict_row(model, dash.X_ideal.rows[i])) <= 10

\* C6 witness: a result of two different students, one of whose predictions
\* has a third decimal.
PotentialIsRoundedPredictionWitness ==
  /\ DashOk
  /\ Len(dash.results.rows) >= 2
  /\ dash.results.rows[1]["StudentID"] # dash.results.rows[2]["StudentID"]
  /\ dash.potential_preds[1] # dash.potential_preds[2]
  /\ \E i \in DOMAIN dash.potential_preds : dash.potential_preds[i].n % 10 # 0

\* C7: the table a caller hands to preprocess_data, and the raw table of a
\* generate_dashboard_data run (handed to create_ideal_profile), keep their
\* columns and every cell.
InputTablesUnchanged ==
  /\ input = orig["input"]
  /\ other = orig["other"]
  /\ DashCalled => dash.df_raw = orig["input"]

\* C7 witness: both tables were encoded and the pipeline ran on a table in
\* which the overrides and the mappings change values.
InputTablesUnchangedWitness ==
  /\ Called("input") /\ Called("other") /\ DashOk
  /\ dash.df_ideal_raw # orig["input"]

\* C8: encoding the idealized copy gives Total_Alcohol = 3, Party_Life = 18,
\* Parent_Edu_Total = Medu + Fedu and Parent_Edu_Diff = |Medu - Fedu| of the
\* record, whatever the record's Dalc, Walc, goout and whether or not the
\* input already had columns of those names.
DerivedFeaturesRecomputed ==
  DashCalled =>
    \A i \in DOMAIN dash.X_ideal.rows :
      LET x == dash.X_ideal.rows[i]
          r == orig["input"].rows[i]
      IN /\ InSchema("Total_Alcohol") => x["Total_Alcohol"] = Num(3)
         /\ InSchema("Party_Life") => x["Party_Life"] = Num(18)
         /\ InSchema("Parent_Edu_Total") => x["Parent_Edu_Total"] = Num(r["Medu"].n + r["Fedu"].n)
         /\ InSchema("Parent_Edu_Diff") => x["Parent_Edu_Diff"] = Num(Abs(r["Medu"].n - r["Fedu"].n))

\* C8 witness: the input came with Total_Alcohol and Party_Life columns of
\* other values, and the schema has the four derived columns.
DerivedFeaturesRecomputedWitness ==
  /\ DashCalled
  /\ \A c \in {"Total_Alcohol", "Party_Life", "Parent_Edu_Total", "Parent_Edu_Diff"} : InSchema(c)
  /\ "Total_Alcohol" \in Range(orig["input"].columns)
  /\ \E i \in DOMAIN orig["input"].rows :
       /\ orig["input"].rows[i]["Total_Alcohol"] # Num(3)
       /\ orig["input"].rows[i]["Dalc"] # Num(1)
       /\ orig["input"].rows[i]["Medu"] # orig["input"].rows[i]["Fedu"]

\* C9: every Complexity_Score lies between 0 and 1 inclusive.
ComplexityWithinUnitInterval ==
  DashOk =>
    \A i \in DOMAIN dash.results.rows :
      /\ dash.results.rows[i]["Complexity_Score"].n >= 0
      /\ dash.results.rows[i]["Complexity_Score"].n <= 20 * Unit

\* C10: for a fixed schema the reconciled row of a record is the same in any
\* two batches that contain the record, and a schema column <field>_<level>
\* of a nominal field holds 1 exactly when the record's field is <level>.
IndicatorsMatchRecord(b) ==
  \A i \in DOMAIN X[b].rows : \A f \in Range(nominal_cols) : \A l \in Range(LevelOrder) :
    InSchema(f \o "_" \o l) =>
      X[b].rows[i][f \o "_" \o l] = Num(IF orig[b].rows[i][f] = Str(l) THEN 1 ELSE 0)

EncodedRowIndependentOfBatch ==
  /\ (Called("input") /\ Called("other")) =>
       \A i \in DOMAIN orig["input"].rows : \A j \in DOMAIN orig["other"].rows :
         orig["input"].rows[i] = orig["other"].rows[j] => X["input"].rows[i] = X["other"].rows[j]
  /\ \A b \in BatchNames : Called(b) => IndicatorsMatchRecord(b)

====
